---- MODULE Spec2Model ----
(***************************************************************************)
(* scripts/verify_e2e_data.py: the frontmatter parser, the two-level       *)
(* directory scanner and the verification pass of main().                  *)
(*                                                                         *)
(* A Python str is a sequence of one-character strings.  Offsets in the    *)
(* operators below are 0-based, as in the source; only the accesses to the *)
(* underlying TLA+ sequence add one.                                       *)
(***************************************************************************)
EXTENDS Integers, Sequences, FiniteSets, TLC

VARIABLES
    pc,          \* position of the process in main() / of the parser run
    tree,        \* the ./data tree on disk (read-only for the program)
    wsTodo,      \* entries of DATA_DIR.iterdir() not yet visited (line 28)
    nodeTodo,    \* entries of ws_dir.iterdir() not yet visited (line 31)
    curWs,       \* ws_dir of the running inner loop
    pages,       \* scan_pages.pages, then main.pages
    errors,      \* main.errors
    evaluated,   \* the verification checks main() has run so far
    out,         \* lines printed on stdout
    status,      \* <<>> while running, <<code>> once the process has exited
    raised,      \* name of the uncaught exception that ended the run, or ""
    enumerated,  \* number of iterdir() calls performed
    reads,       \* number of read_text() calls performed
    content,     \* argument of a stand-alone parse_frontmatter call
    parsed       \* its result

vars == <<pc, tree, wsTodo, nodeTodo, curWs, pages, errors, evaluated, out,
          status, raised, enumerated, reads, content, parsed>>

---------------------------------------------------------------------------
(* Bounds of the model. *)

\* longest header region generated for the parser inputs
MaxHdrLen == 6

---------------------------------------------------------------------------
(* str operations used by the script. *)

NL == <<"\n">>
DELIM == <<"-", "-", "-">>
TERM == NL \o DELIM \o NL
COLON == <<":">>

MinOf(S) == CHOOSE x \in S : \A y \in S : x <= y
MaxOf(S) == CHOOSE x \in S : \A y \in S : x >= y

\* s.startswith(p)
StartsWith(s, p) == Len(s) >= Len(p) /\ SubSeq(s, 1, Len(p)) = p

\* s[a:b] for 0 <= a, 0 <= b
Slice(s, a, b) ==
    LET hi == IF b < Len(s) THEN b ELSE Len(s)
    IN IF a >= hi THEN <<>> ELSE SubSeq(s, a + 1, hi)

\* s[a:]
SliceFrom(s, a) == Slice(s, a, Len(s))

\* s.find(sub, start): lowest offset >= start where sub occurs, else -1
Find(s, sub, start) ==
    LET hits == {i \in start..(Len(s) - Len(sub)) :
                    SubSeq(s, i + 1, i + Len(sub)) = sub}
    IN IF hits = {} THEN -1 ELSE MinOf(hits)

\* sub in s
Contains(s, sub) == Find(s, sub, 0) # -1

\* s.split(sep): always at least one piece
RECURSIVE Split(_, _)
Split(s, sep) ==
    LET i == Find(s, sep, 0)
    IN IF i = -1 THEN <<s>>
       ELSE <<Slice(s, 0, i)>> \o Split(SliceFrom(s, i + Len(sep)), sep)

\* s.split(sep, 1) for a string that contains sep: <<before, after>>
SplitOnce(s, sep) ==
    LET i == Find(s, sep, 0)
    IN <<Slice(s, 0, i), SliceFrom(s, i + Len(sep))>>

\* str.isspace() on the characters this model writes
IsSpace(c) == c \in {" ", "\t", "\n", "\r", "\f"}

RECURSIVE LStrip(_)
LStrip(s) == IF s # <<>> /\ IsSpace(Head(s)) THEN LStrip(Tail(s)) ELSE s

RECURSIVE RStrip(_)
RStrip(s) ==
    IF s # <<>> /\ IsSpace(s[Len(s)]) THEN RStrip(SubSeq(s, 1, Len(s) - 1)) ELSE s

\* s.strip()
Strip(s) == RStrip(LStrip(s))

---------------------------------------------------------------------------
(* dict operations. *)

\* {}
EmptyMap == [k \in {} |-> <<>>]

\* fm[k] = v
PutFirstWins(fm, k, v) ==
    [x \in DOMAIN fm \cup {k} |-> IF x \in DOMAIN fm THEN fm[x] ELSE v]

Put(fm, k, v) == [x \in DOMAIN fm \cup {k} |-> IF x = k THEN v ELSE fm[x]]

\* fm.get(k, default)
Get(fm, k, default) == IF k \in DOMAIN fm THEN fm[k] ELSE default

---------------------------------------------------------------------------
(* parse_frontmatter *)

\* the loop of lines 18-21 over the lines from index i on
RECURSIVE ParseLines(_, _, _)
ParseLines(lines, i, fm) ==
    IF i > Len(lines) THEN fm
    ELSE IF Contains(lines[i], COLON)
         THEN LET kv == SplitOnce(lines[i], COLON)
              IN ParseLines(lines, i + 1, Put(fm, Strip(kv[1]), Strip(kv[2])))
         ELSE ParseLines(lines, i + 1, fm)

\* the same function accepting a terminator that lacks its final newline
parse_frontmatter_LooseTerm(text) ==
    IF ~StartsWith(text, DELIM) THEN [fm |-> EmptyMap, body |-> text]
    ELSE LET end == Find(text, NL \o DELIM, 3)
         IN IF end = -1 THEN [fm |-> EmptyMap, body |-> text]
            ELSE [fm |-> ParseLines(Split(Slice(text, 4, end), NL), 1, EmptyMap),
                  body |-> SliceFrom(text, end + 5)]

parse_frontmatter(text) ==
    IF ~StartsWith(text, DELIM) THEN [fm |-> EmptyMap, body |-> text]
    ELSE LET end == Find(text, TERM, 3)
         IN IF end = -1 THEN [fm |-> EmptyMap, body |-> text]
            ELSE [fm |-> ParseLines(Split(Slice(text, 4, end), NL), 1, EmptyMap),
                  body |-> SliceFrom(text, end + 5)]

---------------------------------------------------------------------------
(* The ./data tree.  Names and file texts are strings as above. *)

DOT == <<".">>
TITLE_KEY == <<"t", "i", "t", "l", "e">>
INDEX_MD == <<"i", "n", "d", "e", "x", ".", "m", "d">>
RENAMED_PAGE_TITLE == <<"R", "E", "N", "A", "M", "E", "D", " ", "P", "A", "G", "E", " ", "T", "I", "T", "L", "E">>
PAGE_TO_RENAME == <<"P", "a", "g", "e", " ", "T", "o", " ", "R", "e", "n", "a", "m", "e">>
FINAL_RENAME == <<"F", "I", "N", "A", "L", " ", "R", "E", "N", "A", "M", "E">>
MODIFIED_CONTENT == <<"M", "O", "D", "I", "F", "I", "E", "D", " ", "C", "O", "N", "T", "E", "N", "T">>
NEW_TITLE == <<"N", "E", "W", " ", "T", "I", "T", "L", "E">>
UPDATED_TITLE == <<"U", "p", "d", "a", "t", "e", "d", " ", "T", "i", "t", "l", "e">>
HELLO == <<"h", "e", "l", "l", "o">>

W1 == <<"w", "1">>
W2 == <<"w", "2">>
HW == <<".", "w">>
N1 == <<"n", "1">>
N2 == <<"n", "2">>
HN == <<".", "n">>

WsNames == {W1, W2, HW}
Slots == {<<W1, N1>>, <<W1, INDEX_MD>>, <<W1, HN>>, <<W2, N1>>, <<W2, N2>>, <<HW, N1>>}

\* "---\n<key>: <title>\n---\n<body>"
WithHeader(title, body) ==
    DELIM \o NL \o TITLE_KEY \o <<":", " ">> \o title \o TERM \o body

ContentIds == {"c_renamed", "c_old", "c_final", "c_new_mod", "c_new",
               "c_plain_mod", "c_updated", "c_unterminated"}

\* the text of each index.md the model puts on disk
Text(id) ==
    CASE id = "c_renamed" -> WithHeader(RENAMED_PAGE_TITLE, HELLO)
      [] id = "c_old" -> WithHeader(PAGE_TO_RENAME, <<"x">>)
      [] id = "c_final" -> WithHeader(FINAL_RENAME, <<>>)
      [] id = "c_new_mod" ->
            WithHeader(NEW_TITLE, NL \o HELLO \o <<" ">> \o MODIFIED_CONTENT \o NL)
      [] id = "c_new" -> WithHeader(NEW_TITLE, HELLO)
      [] id = "c_plain_mod" -> MODIFIED_CONTENT \o NL \o TITLE_KEY \o COLON \o NEW_TITLE
      [] id = "c_updated" ->
            DELIM \o NL \o <<"a", ":", "b">> \o NL \o <<" ">> \o TITLE_KEY \o COLON
                \o UPDATED_TITLE \o <<" ">> \o TERM \o <<"x">> \o TERM
      [] id = "c_unterminated" ->
            DELIM \o NL \o TITLE_KEY \o <<":", " ">> \o UPDATED_TITLE \o NL \o DELIM

\* A workspace entry is "absent", "file" or "dir".  A node entry is "absent",
\* "file", or a directory: "empty" (no index.md), "deep" (index.md only in a
\* subdirectory), "idxdir" (index.md is itself a directory) or the id of the
\* text of its index.md file.
MakeTree(root, k1, k2, kh, a, b, c, d, e, f) ==
    LET ws == [w \in WsNames |->
                 IF root # "dir" THEN "absent"
                 ELSE IF w = W1 THEN k1 ELSE IF w = W2 THEN k2 ELSE kh]
        val(s) == IF s = <<W1, N1>> THEN a
                  ELSE IF s = <<W1, INDEX_MD>> THEN b
                  ELSE IF s = <<W1, HN>> THEN c
                  ELSE IF s = <<W2, N1>> THEN d
                  ELSE IF s = <<W2, N2>> THEN e
                  ELSE f
    IN [root |-> root,
        ws |-> ws,
        node |-> [s \in Slots |-> IF ws[s[1]] = "dir" THEN val(s) ELSE "absent"]]

NoTree == MakeTree("absent", "absent", "absent", "absent", "absent", "absent",
                   "absent", "absent", "absent", "absent")

\* Path.exists(), Path.is_dir() on an entry of the tree
NodeKind(v) == IF v \in {"absent", "file"} THEN v ELSE "dir"
IndexKind(v) ==
    IF v \in {"absent", "file", "empty", "deep"} THEN "absent"
    ELSE IF v = "idxdir" THEN "dir" ELSE "file"

\* the names DATA_DIR.iterdir() and ws_dir.iterdir() yield
RootEntries == {w \in WsNames : tree.ws[w] # "absent"}
WsEntries(w) == {s[2] : s \in {t \in Slots : t[1] = w /\ tree.node[t] # "absent"}}

\* every order in which a directory listing can come
Perms(S) ==
    {p \in [1..Cardinality(S) -> S] : \A i, j \in 1..Cardinality(S) : p[i] = p[j] => i = j}

---------------------------------------------------------------------------
(* scan_pages and main *)

Page(path, title, body) == [path |-> path, title |-> title, body |-> body]
Msg(what, n) == [what |-> what, n |-> n]
Line(kind, what, n) == [kind |-> kind, what |-> what, n |-> n]

\* the conditions of lines 29 and 32 without the test of the leading dot
SkipEntry_NoDotTest(kind, name) == kind # "dir"

\* lines 29 and 32: not d.is_dir() or d.name.startswith(".")
SkipEntry(kind, name) == kind # "dir" \/ StartsWith(name, DOT)

\* a comprehension that looks at the first page only
WithTitle_FirstOnly(ps, t) == SelectSeq(SubSeq(ps, 1, 1), LAMBDA p : p.title = t)

\* [p for p in pages if p[1] == t]
WithTitle(ps, t) == SelectSeq(ps, LAMBDA p : p.title = t)

\* [p for p in pages if sub in p[2]]
WithBody(ps, sub) == SelectSeq(ps, LAMBDA p : Contains(p.body, sub))

Init ==
    /\ pc = "start"
    /\ \E root \in {"absent", "file", "dir"},
          k1 \in {"absent", "dir"},
          k2 \in {"absent", "file", "dir"},
          kh \in {"absent", "dir"},
          a \in {"absent", "file", "c_renamed", "c_old"},
          b \in {"file", "c_old", "c_final"},
          c \in {"absent", "c_renamed"},
          d \in {"empty", "c_new_mod", "c_new", "c_plain_mod"},
          e \in {"deep", "idxdir", "c_updated", "c_unterminated"},
          f \in {"c_updated"} :
            tree = MakeTree(root, k1, k2, kh, a, b, c, d, e, f)
    /\ wsTodo = <<>>
    /\ nodeTodo = <<>>
    /\ curWs = <<>>
    /\ pages = <<>>
    /\ errors = <<>>
    /\ evaluated = {}
    /\ out = <<>>
    /\ status = <<>>
    /\ raised = ""
    /\ enumerated = 0
    /\ reads = 0
    /\ content = <<>>
    /\ parsed = [fm |-> EmptyMap, body |-> <<>>]

\* an uncaught exception: the frames and their locals are dropped, the
\* traceback goes to stderr and the interpreter exits with status 1
Raise(name) ==
    /\ raised' = name
    /\ pages' = <<>>
    /\ wsTodo' = <<>>
    /\ nodeTodo' = <<>>
    /\ status' = <<1>>
    /\ pc' = "done"

\* lines 42-44 with the existence test dropped
CheckRoot_NoTest ==
    /\ pc = "start"
    /\ pc' = "iter_root"
    /\ UNCHANGED <<tree, wsTodo, nodeTodo, curWs, pages, errors, evaluated, out,
                   status, raised, enumerated, reads, content, parsed>>

\* lines 42-44
CheckRoot ==
    /\ pc = "start"
    /\ IF tree.root = "absent"
       THEN /\ out' = Append(out, Line("error", "root_missing", 0))
            /\ status' = <<1>>
            /\ pc' = "done"
       ELSE /\ pc' = "iter_root"
            /\ UNCHANGED <<out, status>>
    /\ UNCHANGED <<tree, wsTodo, nodeTodo, curWs, pages, errors, evaluated,
                   raised, enumerated, reads, content, parsed>>

\* lines 46, 27-28: DATA_DIR.iterdir() lists the root
IterRoot ==
    /\ pc = "iter_root"
    /\ tree.root = "dir"
    /\ \E p \in Perms(RootEntries) : wsTodo' = p
    /\ enumerated' = enumerated + 1
    /\ pc' = "ws_loop"
    /\ UNCHANGED <<tree, nodeTodo, curWs, pages, errors, evaluated, out, status,
                   raised, reads, content, parsed>>

\* line 28: DATA_DIR.iterdir() on a path that is no directory
IterRootRaises ==
    /\ pc = "iter_root"
    /\ tree.root # "dir"
    /\ Raise(IF tree.root = "file" THEN "NotADirectoryError" ELSE "FileNotFoundError")
    /\ enumerated' = enumerated + 1
    /\ UNCHANGED <<tree, curWs, errors, evaluated, out, reads, content, parsed>>

\* lines 28-31: next workspace entry; line 38 when the listing is exhausted
WsNext ==
    /\ pc = "ws_loop"
    /\ IF wsTodo = <<>>
       THEN /\ pc' = "scanned"
            /\ UNCHANGED <<wsTodo, nodeTodo, curWs, enumerated>>
       ELSE LET w == Head(wsTodo)
            IN /\ wsTodo' = Tail(wsTodo)
               /\ IF SkipEntry(tree.ws[w], w)
                  THEN UNCHANGED <<nodeTodo, curWs, enumerated, pc>>
                  ELSE /\ \E p \in Perms(WsEntries(w)) : nodeTodo' = p
                       /\ curWs' = w
                       /\ enumerated' = enumerated + 1
                       /\ pc' = "node_loop"
    /\ UNCHANGED <<tree, pages, errors, evaluated, out, status, raised, reads,
                   content, parsed>>

\* lines 31-37: next node entry of the current workspace
NodeNext ==
    /\ pc = "node_loop"
    /\ IF nodeTodo = <<>>
       THEN /\ pc' = "ws_loop"
            /\ UNCHANGED <<nodeTodo, pages, reads>>
       ELSE LET n == Head(nodeTodo)
                v == tree.node[<<curWs, n>>]
            IN /\ IndexKind(v) # "dir" \/ SkipEntry(NodeKind(v), n)
               /\ nodeTodo' = Tail(nodeTodo)
               /\ pc' = pc
               /\ IF SkipEntry(NodeKind(v), n) \/ IndexKind(v) = "absent"
                  THEN UNCHANGED <<pages, reads>>
                  ELSE LET r == parse_frontmatter(Text(v))
                       IN /\ pages' = Append(pages,
                                Page(<<curWs, n, INDEX_MD>>,
                                     Get(r.fm, TITLE_KEY, <<>>), Strip(r.body)))
                          /\ reads' = reads + 1
    /\ UNCHANGED <<tree, wsTodo, curWs, errors, evaluated, out, status, raised,
                   enumerated, content, parsed>>

\* lines 35-36: index.md exists but is a directory, read_text() raises
ReadRaises ==
    /\ pc = "node_loop"
    /\ nodeTodo # <<>>
    /\ LET n == Head(nodeTodo)
           v == tree.node[<<curWs, n>>]
       IN ~SkipEntry(NodeKind(v), n) /\ IndexKind(v) = "dir"
    /\ Raise("IsADirectoryError")
    /\ reads' = reads + 1
    /\ UNCHANGED <<tree, curWs, errors, evaluated, out, enumerated, content, parsed>>

\* lines 46-51 without the test of the empty list
AfterScan_NoEmptyTest ==
    /\ pc = "scanned"
    /\ errors' = <<>>
    /\ pc' = "check_rename"
    /\ UNCHANGED <<tree, wsTodo, nodeTodo, curWs, pages, evaluated, out, status,
                   raised, enumerated, reads, content, parsed>>

\* lines 46-51
AfterScan ==
    /\ pc = "scanned"
    /\ IF pages = <<>>
       THEN /\ out' = Append(out, Line("error", "no_pages", 0))
            /\ status' = <<1>>
            /\ pc' = "done"
            /\ UNCHANGED errors
       ELSE /\ errors' = <<>>
            /\ pc' = "check_rename"
            /\ UNCHANGED <<out, status>>
    /\ UNCHANGED <<tree, wsTodo, nodeTodo, curWs, pages, evaluated, raised,
                   enumerated, reads, content, parsed>>

\* lines 54-59
CheckRename ==
    /\ pc = "check_rename"
    /\ LET renamed == WithTitle(pages, RENAMED_PAGE_TITLE)
           old_title == WithTitle(pages, PAGE_TO_RENAME)
           e1 == IF renamed = <<>> THEN <<Msg("renamed", 0)>> ELSE <<>>
           e2 == IF old_title # <<>> THEN <<Msg("old_title", Len(old_title))>> ELSE <<>>
       IN errors' = errors \o e1 \o e2
    /\ evaluated' = evaluated \cup {"renamed", "old_title"}
    /\ pc' = "check_rapid"
    /\ UNCHANGED <<tree, wsTodo, nodeTodo, curWs, pages, out, status, raised,
                   enumerated, reads, content, parsed>>

\* lines 62-64 skipped once an earlier check has failed
CheckRapid_ShortCircuit ==
    /\ pc = "check_rapid"
    /\ IF errors = <<>>
       THEN /\ errors' = IF WithTitle(pages, FINAL_RENAME) = <<>>
                         THEN Append(errors, Msg("final_rename", 0)) ELSE errors
            /\ evaluated' = evaluated \cup {"final_rename"}
       ELSE UNCHANGED <<errors, evaluated>>
    /\ pc' = "check_content"
    /\ UNCHANGED <<tree, wsTodo, nodeTodo, curWs, pages, out, status, raised,
                   enumerated, reads, content, parsed>>

\* lines 62-64
CheckRapid ==
    /\ pc = "check_rapid"
    /\ errors' = IF WithTitle(pages, FINAL_RENAME) = <<>>
                 THEN Append(errors, Msg("final_rename", 0)) ELSE errors
    /\ evaluated' = evaluated \cup {"final_rename"}
    /\ pc' = "check_content"
    /\ UNCHANGED <<tree, wsTodo, nodeTodo, curWs, pages, out, status, raised,
                   enumerated, reads, content, parsed>>

\* lines 67-69
CheckContent ==
    /\ pc = "check_content"
    /\ errors' = IF WithBody(pages, MODIFIED_CONTENT) = <<>>
                 THEN Append(errors, Msg("modified_content", 0)) ELSE errors
    /\ evaluated' = evaluated \cup {"modified_content"}
    /\ pc' = "check_combined"
    /\ UNCHANGED <<tree, wsTodo, nodeTodo, curWs, pages, out, status, raised,
                   enumerated, reads, content, parsed>>

\* lines 72-74
CheckCombined ==
    /\ pc = "check_combined"
    /\ errors' = IF WithTitle(pages, NEW_TITLE) = <<>>
                 THEN Append(errors, Msg("new_title", 0)) ELSE errors
    /\ evaluated' = evaluated \cup {"new_title"}
    /\ pc' = "check_autosave"
    /\ UNCHANGED <<tree, wsTodo, nodeTodo, curWs, pages, out, status, raised,
                   enumerated, reads, content, parsed>>

\* lines 77-79
CheckAutosave ==
    /\ pc = "check_autosave"
    /\ errors' = IF WithTitle(pages, UPDATED_TITLE) = <<>>
                 THEN Append(errors, Msg("updated_title", 0)) ELSE errors
    /\ evaluated' = evaluated \cup {"updated_title"}
    /\ pc' = "report"
    /\ UNCHANGED <<tree, wsTodo, nodeTodo, curWs, pages, out, status, raised,
                   enumerated, reads, content, parsed>>

\* lines 82-89 returning the status of the last check alone
Report_LastCheckOnly ==
    /\ pc = "report"
    /\ LET summary == Line("summary", "scanned", Len(pages))
           lines == [i \in 1..Len(errors) |-> Line("error", errors[i].what, errors[i].n)]
       IN IF errors # <<>>
          THEN /\ out' = Append(out, summary) \o lines
               /\ status' = IF errors[Len(errors)].what = "updated_title"
                            THEN <<1>> ELSE <<0>>
          ELSE /\ out' = Append(Append(out, summary), Line("ok", "passed", 0))
               /\ status' = <<0>>
    /\ pc' = "done"
    /\ UNCHANGED <<tree, wsTodo, nodeTodo, curWs, pages, errors, evaluated, raised,
                   enumerated, reads, content, parsed>>

\* lines 82-89 printing the summary after the check of errors
Report_SummaryLate ==
    /\ pc = "report"
    /\ LET summary == Line("summary", "scanned", Len(pages))
           lines == [i \in 1..Len(errors) |-> Line("error", errors[i].what, errors[i].n)]
       IN IF errors # <<>>
          THEN /\ out' = out \o lines
               /\ status' = <<1>>
          ELSE /\ out' = Append(Append(out, summary), Line("ok", "passed", 0))
               /\ status' = <<0>>
    /\ pc' = "done"
    /\ UNCHANGED <<tree, wsTodo, nodeTodo, curWs, pages, errors, evaluated, raised,
                   enumerated, reads, content, parsed>>

\* lines 82-89
Report ==
    /\ pc = "report"
    /\ LET summary == Line("summary", "scanned", Len(pages))
           lines == [i \in 1..Len(errors) |-> Line("error", errors[i].what, errors[i].n)]
       IN IF errors # <<>>
          THEN /\ out' = Append(out, summary) \o lines
               /\ status' = <<1>>
          ELSE /\ out' = Append(Append(out, summary), Line("ok", "passed", 0))
               /\ status' = <<0>>
    /\ pc' = "done"
    /\ UNCHANGED <<tree, wsTodo, nodeTodo, curWs, pages, errors, evaluated, raised,
                   enumerated, reads, content, parsed>>

Next ==
    \/ CheckRoot
    \/ IterRoot
    \/ IterRootRaises
    \/ WsNext
    \/ NodeNext
    \/ ReadRaises
    \/ AfterScan
    \/ CheckRename
    \/ CheckRapid
    \/ CheckContent
    \/ CheckCombined
    \/ CheckAutosave
    \/ Report

Spec == Init /\ [][Next]_vars

---------------------------------------------------------------------------
(* Stand-alone runs of parse_frontmatter over generated content strings. *)

Openings == {DELIM \o NL, DELIM, <<"-", "-">> \o NL}
HdrAlphabet == {":", " ", "a", "\n"}
Headers == UNION {[1..n -> HdrAlphabet] : n \in 0..MaxHdrLen}
Tails == {<<>>, NL \o DELIM, TERM, TERM \o <<" ", "a", "\n">>, TERM \o TERM,
          NL \o <<"-", "-">> \o NL}
ParseInputs == {o \o h \o t : o \in Openings, h \in Headers, t \in Tails}

NoResult == [fm |-> EmptyMap, body |-> <<>>]

InitParse ==
    /\ pc = "input"
    /\ content \in ParseInputs
    /\ parsed = NoResult
    /\ tree = NoTree
    /\ wsTodo = <<>>
    /\ nodeTodo = <<>>
    /\ curWs = <<>>
    /\ pages = <<>>
    /\ errors = <<>>
    /\ evaluated = {}
    /\ out = <<>>
    /\ status = <<>>
    /\ raised = ""
    /\ enumerated = 0
    /\ reads = 0

ParseCall ==
    /\ pc = "input"
    /\ parsed' = parse_frontmatter(content)
    /\ pc' = "parsed"
    /\ UNCHANGED <<tree, wsTodo, nodeTodo, curWs, pages, errors, evaluated, out,
                   status, raised, enumerated, reads, content>>

NextParse == ParseCall

SpecParse == InitParse /\ [][NextParse]_vars

---------------------------------------------------------------------------
(* What the parser contract says, stated on the characters of content. *)

\* the character at 0-based offset i
At(s, i) == s[i + 1]

\* the characters at offsets a .. b-1
Piece(s, a, b) == [i \in 1..(b - a) |-> s[a + i]]

BeginsWithDelim(s) == Len(s) >= 3 /\ At(s, 0) = "-" /\ At(s, 1) = "-" /\ At(s, 2) = "-"

TermAt(s, i) ==
    /\ i + 5 <= Len(s)
    /\ At(s, i) = "\n" /\ At(s, i + 1) = "-" /\ At(s, i + 2) = "-"
    /\ At(s, i + 3) = "-" /\ At(s, i + 4) = "\n"

Terminated(s) == \E i \in 3..Len(s) : TermAt(s, i)

FirstTerm(s) ==
    CHOOSE e \in 3..Len(s) : TermAt(s, e) /\ \A j \in 3..(e - 1) : ~TermAt(s, j)

\* s without its leading and trailing whitespace
Trimmed(s) ==
    LET ns == {i \in 1..Len(s) : ~IsSpace(s[i])}
    IN IF ns = {} THEN <<>> ELSE SubSeq(s, MinOf(ns), MaxOf(ns))

\* the lines of the header region [4, e): pairs <<first offset, end offset>>
LineSpans(s, e) ==
    {sp \in (4..e) \X (4..e) :
        /\ sp[1] <= sp[2]
        /\ (sp[1] = 4 \/ At(s, sp[1] - 1) = "\n")
        /\ (sp[2] = e \/ At(s, sp[2]) = "\n")
        /\ \A i \in sp[1]..(sp[2] - 1) : At(s, i) # "\n"}

ColonSpans(s, e) ==
    {sp \in LineSpans(s, e) : \E i \in sp[1]..(sp[2] - 1) : At(s, i) = ":"}

FirstColon(s, sp) ==
    CHOOSE p \in sp[1]..(sp[2] - 1) :
        At(s, p) = ":" /\ \A q \in sp[1]..(p - 1) : At(s, q) # ":"

KeyOf(s, sp) == Trimmed(Piece(s, sp[1], FirstColon(s, sp)))
ValOf(s, sp) == Trimmed(Piece(s, FirstColon(s, sp) + 1, sp[2]))

\* the last line of the region that carries key k
LastSpan(s, e, k) ==
    CHOOSE sp \in ColonSpans(s, e) :
        /\ KeyOf(s, sp) = k
        /\ \A o \in ColonSpans(s, e) : KeyOf(s, o) = k => o[1] <= sp[1]

\* C3: content that does not start with '---', or starts with it but has no
\* '\n---\n' at or after offset 3, parses to the empty mapping and to the
\* original content, unchanged, as body.
C3_NoHeaderKeepsContent ==
    (pc = "parsed" /\ (~BeginsWithDelim(content) \/ ~Terminated(content)))
        => (parsed.fm = EmptyMap /\ parsed.body = content)

\* a parsed string that opens with the delimiter, holds a "key: value" line and
\* a closing '\n---' that lacks its final newline
C3_Witness ==
    /\ pc = "parsed"
    /\ BeginsWithDelim(content)
    /\ ~Terminated(content)
    /\ Contains(content, COLON)
    /\ Len(content) >= 4
    /\ SubSeq(content, Len(content) - 3, Len(content)) = NL \o DELIM
    /\ parsed.body = content

\* C4: content that starts with '---' and has a terminator at or after offset 3
\* is cut at the first terminator; the mapping holds exactly the trimmed keys
\* of the region's lines that contain a colon, split at their first colon, each
\* key with the trimmed value of the last line carrying it; the body is the
\* text after the 5-character terminator, untrimmed.
C4_HeaderParsed ==
    (pc = "parsed" /\ BeginsWithDelim(content) /\ Terminated(content)) =>
        LET e == FirstTerm(content)
            keys == {KeyOf(content, sp) : sp \in ColonSpans(content, e)}
        IN /\ DOMAIN parsed.fm = keys
           /\ \A k \in keys :
                parsed.fm[k] = ValOf(content, LastSpan(content, e, k))
           /\ parsed.body = Piece(content, e + 5, Len(content))

\* a parsed header with two lines of the same key and different values, one of
\* them with a second colon in its value, followed by a body that itself holds
\* a terminator
C4_Witness ==
    /\ pc = "parsed"
    /\ BeginsWithDelim(content)
    /\ Terminated(content)
    /\ LET e == FirstTerm(content)
       IN /\ \E a, b \in ColonSpans(content, e) :
                /\ a[1] < b[1]
                /\ KeyOf(content, a) = KeyOf(content, b)
                /\ ValOf(content, a) # ValOf(content, b)
                /\ Contains(ValOf(content, a), COLON)
          /\ Contains(parsed.body, TERM)
          /\ \E i \in (e + 1)..Len(content) : TermAt(content, i)

---------------------------------------------------------------------------
(* What the scanner and verifier contracts say, stated on the tree, on the *)
(* scanned pages and on the printed lines.                                 *)

Checks == {"renamed", "old_title", "final_rename", "modified_content",
           "new_title", "updated_title"}

HasTitle(t) == \E i \in 1..Len(pages) : pages[i].title = t
CountTitle(t) == Cardinality({i \in 1..Len(pages) : pages[i].title = t})

Occurs(sub, s) ==
    \E k \in 0..(Len(s) - Len(sub)) : \A j \in 1..Len(sub) : s[k + j] = sub[j]

\* the six predicates of the verification pass, as failures
Failed(c) ==
    CASE c = "renamed" -> ~HasTitle(RENAMED_PAGE_TITLE)
      [] c = "old_title" -> HasTitle(PAGE_TO_RENAME)
      [] c = "final_rename" -> ~HasTitle(FINAL_RENAME)
      [] c = "modified_content" ->
            ~\E i \in 1..Len(pages) : Occurs(MODIFIED_CONTENT, pages[i].body)
      [] c = "new_title" -> ~HasTitle(NEW_TITLE)
      [] c = "updated_title" -> ~HasTitle(UPDATED_TITLE)

ErrorLines(c) == {i \in 1..Len(out) : out[i].kind = "error" /\ out[i].what = c}
SummaryLines == {i \in 1..Len(out) : out[i].kind = "summary"}
OkLines == {i \in 1..Len(out) : out[i].kind = "ok"}

\* scan_pages() has returned to main()
ScanReturned ==
    /\ raised = ""
    /\ \/ pc \in {"scanned", "check_rename", "check_rapid", "check_content",
                  "check_combined", "check_autosave", "report"}
       \/ pc = "done" /\ tree.root # "absent"

\* the nodes root/<workspace>/<node> with both names not hidden, both
\* directories, that hold an index.md file
VisibleNode(s) ==
    /\ s[1][1] # "." /\ s[2][1] # "."
    /\ tree.ws[s[1]] = "dir"
    /\ tree.node[s] \notin {"absent", "file"}
TreeFiles == {s \in Slots : VisibleNode(s) /\ tree.node[s] \in ContentIds}

\* C1: a run ends with status zero exactly when the root exists, the scan
\* yielded at least one Page and none of the six predicates fails; every other
\* run ends with a non-zero status.
C1_ExitZeroIff ==
    pc = "done" =>
        /\ Len(status) = 1
        /\ status[1] = 0 <=>
              (tree.root # "absent" /\ pages # <<>> /\ \A c \in Checks : ~Failed(c))

\* a run that ended with status zero
C1_Witness ==
    /\ pc = "done"
    /\ status = <<0>>
    /\ Len(pages) >= 4
    /\ tree.ws[HW] = "dir"

\* C2: the Pages scan_pages() returns are exactly the index.md files directly
\* inside root/<workspace>/<node> with neither name hidden, one Page per file.
C2_PagesAreVisibleIndexFiles ==
    ScanReturned =>
        /\ \A i, j \in 1..Len(pages) : pages[i].path = pages[j].path => i = j
        /\ {pages[i].path : i \in 1..Len(pages)}
              = {<<s[1], s[2], INDEX_MD>> : s \in TreeFiles}

\* a returned scan of a tree with a hidden workspace and a hidden node that
\* hold valid index.md files, a node without index.md, a node whose index.md
\* lies one level deeper and an index.md file directly inside a workspace
C2_Witness ==
    /\ ScanReturned
    /\ pages # <<>>
    /\ tree.node[<<HW, N1>>] \in ContentIds
    /\ tree.node[<<W1, HN>>] \in ContentIds
    /\ tree.node[<<W2, N1>>] = "empty"
    /\ tree.node[<<W2, N2>>] = "deep"
    /\ tree.node[<<W1, INDEX_MD>>] = "file"

\* C5: on a non-empty Page sequence all six predicates are evaluated whatever
\* the earlier ones gave, and the run prints one error line for each predicate
\* that fails and none for one that holds; the 'Page To Rename' line carries
\* the number of such pages.
C5_AllChecksReported ==
    (pc = "done" /\ raised = "" /\ pages # <<>>) =>
        /\ evaluated = Checks
        /\ \A c \in Checks :
              Cardinality(ErrorLines(c)) = IF Failed(c) THEN 1 ELSE 0
        /\ \A i \in ErrorLines("old_title") : out[i].n = CountTitle(PAGE_TO_RENAME)

\* a run that reports the failure of all six predicates at once, with two
\* stale pages counted
C5_Witness ==
    /\ pc = "done"
    /\ pages # <<>>
    /\ \A c \in Checks : ErrorLines(c) # {}
    /\ \E i \in ErrorLines("old_title") : out[i].n = 2

\* C6: with the root absent the run only reports the missing root and exits
\* non-zero; no directory is ever enumerated and no file is ever read.
C6_MissingRootBeforeScan ==
    tree.root = "absent" =>
        /\ enumerated = 0 /\ reads = 0
        /\ pc \in {"start", "done"}
        /\ pc = "done" =>
              (out = <<Line("error", "root_missing", 0)>> /\ status = <<1>>)

\* a finished run on an absent root
C6_Witness == pc = "done" /\ tree.root = "absent" /\ status = <<1>>

\* C7: when the scan returns no Page, the run reports 'no pages found' and
\* exits non-zero without evaluating any predicate or printing a predicate
\* error.
C7_NoPagesBeforeChecks ==
    (ScanReturned /\ pages = <<>>) =>
        /\ pc \in {"scanned", "done"}
        /\ evaluated = {} /\ errors = <<>>
        /\ pc = "done" =>
              (out = <<Line("error", "no_pages", 0)>> /\ status = <<1>>)

\* a finished run on a root that holds a hidden workspace with a valid page
\* and a visible workspace whose nodes have no index.md
C7_Witness ==
    /\ pc = "done"
    /\ out = <<Line("error", "no_pages", 0)>>
    /\ tree.node[<<HW, N1>>] \in ContentIds
    /\ tree.node[<<W2, N1>>] = "empty"
    /\ enumerated >= 2

\* one summary line with the page count, one error line per failed predicate,
\* a success line exactly when all checks pass
ReportShape ==
    /\ Cardinality(SummaryLines) = 1
    /\ \A i \in SummaryLines : out[i].n = Len(pages)
    /\ \A i \in 1..Len(out) :
          out[i].kind \in {"summary", "ok"} \/ out[i].what \in Checks
    /\ \A c \in Checks : Cardinality(ErrorLines(c)) = IF Failed(c) THEN 1 ELSE 0
    /\ Cardinality(OkLines) = IF \A c \in Checks : ~Failed(c) THEN 1 ELSE 0

\* C8 as stated: the output of every run consists of one summary line with the
\* number of scanned pages, one error line per failed predicate and a final
\* success line exactly when all checks pass.
C8_EveryRunPrintsReport == pc = "done" => ReportShape

\* C8 amended: a run whose scan returned at least one Page prints the summary
\* line first, then one error line per failed predicate, and last a success
\* line exactly when all checks pass; a run ended by a missing root or by an
\* empty scan prints its fatal error line alone, without a summary line.
C8_ReportOnlyAfterPages ==
    (pc = "done" /\ raised = "") =>
        IF pages # <<>>
        THEN /\ ReportShape
             /\ out[1].kind = "summary"
             /\ \A i \in OkLines : i = Len(out)
        ELSE /\ SummaryLines = {}
             /\ out = <<Line("error",
                             IF tree.root = "absent" THEN "root_missing" ELSE "no_pages",
                             0)>>

\* a finished run that printed the summary and two predicate errors
C8_Witness ==
    /\ pc = "done"
    /\ Len(out) = 3
    /\ out[1] = Line("summary", "scanned", Len(pages))
    /\ out[2].kind = "error" /\ out[3].kind = "error"

\* C9: a run whose root exists ends in 'no pages found', in a report of
\* predicate failures or in success; nothing in the tree makes the scanner or
\* the parser fail.
C9_OnlyTwoFatalKinds ==
    (pc = "done" /\ tree.root # "absent") =>
        /\ raised = ""
        /\ \/ out = <<Line("error", "no_pages", 0)>>
           \/ SummaryLines # {}

\* what a run must give, computed from the tree alone
TreeTitle(s) == Get(parse_frontmatter(Text(tree.node[s])).fm, TITLE_KEY, <<>>)
TreeBody(s) == Strip(parse_frontmatter(Text(tree.node[s])).body)
TreeHasTitle(t) == \E s \in TreeFiles : TreeTitle(s) = t
TreeErrorLines ==
    LET one(cond, what, n) == IF cond THEN <<Line("error", what, n)>> ELSE <<>>
    IN one(~TreeHasTitle(RENAMED_PAGE_TITLE), "renamed", 0)
       \o one(TreeHasTitle(PAGE_TO_RENAME), "old_title",
              Cardinality({s \in TreeFiles : TreeTitle(s) = PAGE_TO_RENAME}))
       \o one(~TreeHasTitle(FINAL_RENAME), "final_rename", 0)
       \o one(~\E s \in TreeFiles : Occurs(MODIFIED_CONTENT, TreeBody(s)),
              "modified_content", 0)
       \o one(~TreeHasTitle(NEW_TITLE), "new_title", 0)
       \o one(~TreeHasTitle(UPDATED_TITLE), "updated_title", 0)
TreeVerdict ==
    IF tree.root = "absent"
    THEN <<1, <<Line("error", "root_missing", 0)>>>>
    ELSE IF tree.root = "file" \/ \E s \in Slots : VisibleNode(s) /\ tree.node[s] = "idxdir"
    THEN <<1, <<>>>>
    ELSE IF TreeFiles = {}
    THEN <<1, <<Line("error", "no_pages", 0)>>>>
    ELSE IF TreeErrorLines # <<>>
    THEN <<1, <<Line("summary", "scanned", Cardinality(TreeFiles))>> \o TreeErrorLines>>
    ELSE <<0, <<Line("summary", "scanned", Cardinality(TreeFiles)),
                Line("ok", "passed", 0)>>>>

\* C10: pages are appended in the order the entries come out of the directory
\* listings (workspaces in listing order, nodes in listing order, never
\* re-ordered), and the exit status, the page count and the error lines of a
\* run are those the tree determines, whatever the listing orders were.
C10_ListingOrderIrrelevant ==
    [][/\ pages' # pages =>
            \/ raised' # "" /\ pages' = <<>>
            \/ /\ pc = "node_loop" /\ nodeTodo # <<>>
               /\ nodeTodo' = Tail(nodeTodo)
               /\ Len(pages') = Len(pages) + 1
               /\ SubSeq(pages', 1, Len(pages)) = pages
               /\ pages'[Len(pages')].path = <<curWs, Head(nodeTodo), INDEX_MD>>
       /\ curWs' # curWs =>
            (wsTodo # <<>> /\ curWs' = Head(wsTodo) /\ wsTodo' = Tail(wsTodo))
       /\ pc' = "done" => <<status'[1], out'>> = TreeVerdict
      ]_vars

\* a finished run in which w2 was listed before w1 and, inside w1, index.md
\* before n1, with pages from both
C10_Witness ==
    /\ pc = "done"
    /\ Len(pages) >= 3
    /\ pages[1].path[1] = W2
    /\ pages[Len(pages)].path = <<W1, N1, INDEX_MD>>
    /\ pages[Len(pages) - 1].path = <<W1, INDEX_MD, INDEX_MD>>

====
